---- MODULE Spec2Model ----
(***************************************************************************)
(* Model of custom_explorer/explorer.py: the ExplorerNode frontier         *)
(* exploration loop (map / costmap subscriptions, the 5 s explore timer,   *)
(* the NavigateToPose goal callbacks) and main()'s spin / finally.         *)
(*                                                                         *)
(* Conventions                                                             *)
(*  - An OccupancyGrid message is a record; data is the row-major cell     *)
(*    sequence, 1-based in TLA+, so map_array[r, c] = data[r*width+c+1].   *)
(*  - Lengths are in hundredths of a metre (resolution 5 = 0.05 m,         *)
(*    origin -100 = -1.0 m), so the world coordinates are exact integers.  *)
(*  - np.sqrt is strictly increasing, so distances are compared by their   *)
(*    squares.                                                             *)
(*  - A frontier is the tuple <<row, col, cost>> of the source; Python's   *)
(*    None for chosen_frontier is the empty tuple (both are falsy).        *)
(***************************************************************************)
EXTENDS Integers, Sequences, FiniteSets, TLC

VARIABLES
    map_data,           \* self.map_data: None or the last /map message
    costmap_data,       \* self.costmap_data: None or the last costmap message
    visited_frontiers,  \* self.visited_frontiers
    goals,              \* goals sent to the action server, in order of submission
    phase,              \* main(): "spinning" inside rclpy.spin, "exited" after finally
    exitCause,          \* what ended rclpy.spin
    shutdownCalls,      \* number of executions of the body of shudown_robot
    ticks,              \* number of timer callbacks run so far
    lastLog,            \* last message logged by explore / navigate_to
    frontiers,          \* explore's local: result of the last find_frontiers
    chosen_frontier     \* explore's local: result of the last choose_frontier

vars == <<map_data, costmap_data, visited_frontiers, goals, phase, exitCause,
          shutdownCalls, ticks, lastLog, frontiers, chosen_frontier>>

-----------------------------------------------------------------------------
(* Bounds *)

MaxTicks == 3

-----------------------------------------------------------------------------
(* Values *)

None == [none |-> TRUE]

NoFrontier == <<>>

robot_position == <<0, 0>>

Cells(h, w) == (0..(h - 1)) \X (0..(w - 1))

(* an OccupancyGrid message; cell maps <<row, col>> to the cell value *)
Grid(h, w, res, ox, oy, cell) ==
    [height |-> h, width |-> w, resolution |-> res,
     origin_x |-> ox, origin_y |-> oy,
     data |-> [k \in 1..(h * w) |-> cell[<<(k - 1) \div w, (k - 1) % w>>]]]

(* np.array(msg.data).reshape((height, width))[r, c] *)
ArrayAt(g, r, c) == g.data[r * g.width + c + 1]

-----------------------------------------------------------------------------
(* find_frontiers *)

(* variant: only the 4 edge-adjacent cells (and the cell itself) are inspected *)
NeighborsEdgeOnly(m, r, c) ==
    { ArrayAt(m, r + d[1], c + d[2]) :
        d \in {<<0, 0>>, <<-1, 0>>, <<1, 0>>, <<0, -1>>, <<0, 1>>} }

Neighbors(m, r, c) ==
    { ArrayAt(m, r + dr, c + dc) : dr \in -1..1, dc \in -1..1 }

(* costmap_array[r, c] is an IndexError outside the costmap's own shape *)
CostIndexError(cm, r, c) == r >= cm.height \/ c >= cm.width

RECURSIVE ScanCells(_, _, _, _)
ScanCells(m, cm, k, acc) ==
    LET rows == m.height
        cols == m.width
        inner == IF cols > 2 THEN cols - 2 ELSE 0
        total == IF rows > 2 THEN (rows - 2) * inner ELSE 0
        r == 1 + (k \div inner)
        c == 1 + (k % inner)
    IN  IF k >= total THEN [error |-> FALSE, list |-> acc]
        ELSE IF ArrayAt(m, r, c) = 0 /\ -1 \in Neighbors(m, r, c)
             THEN IF CostIndexError(cm, r, c)
                  THEN [error |-> TRUE, list |-> <<>>]
                  ELSE ScanCells(m, cm, k + 1,
                                 Append(acc, <<r, c, ArrayAt(cm, r, c)>>))
             ELSE ScanCells(m, cm, k + 1, acc)

find_frontiers(m, cm) == ScanCells(m, cm, 0, <<>>)

-----------------------------------------------------------------------------
(* choose_frontier *)

Inf == -1

Dist2(f) == (robot_position[1] - f[1]) * (robot_position[1] - f[1])
            + (robot_position[2] - f[2]) * (robot_position[2] - f[2])

Less(d, min_distance) == min_distance = Inf \/ d < min_distance

(* variant: a later candidate replaces the chosen one only at strictly lower cost *)
RECURSIVE ChooseLoopStrict(_, _, _, _, _)
ChooseLoopStrict(fs, visited, i, min_distance, chosen) ==
    IF i > Len(fs) THEN chosen
    ELSE LET frontier == fs[i]
         IN  IF frontier \in visited
             THEN ChooseLoopStrict(fs, visited, i + 1, min_distance, chosen)
             ELSE IF (Less(Dist2(frontier), min_distance) /\ chosen = NoFrontier)
                     \/ (chosen # NoFrontier /\ frontier[3] < chosen[3])
                  THEN ChooseLoopStrict(fs, visited, i + 1, Dist2(frontier), frontier)
                  ELSE ChooseLoopStrict(fs, visited, i + 1, min_distance, chosen)

RECURSIVE ChooseLoop(_, _, _, _, _)
ChooseLoop(fs, visited, i, min_distance, chosen) ==
    IF i > Len(fs) THEN chosen
    ELSE LET frontier == fs[i]
         IN  IF frontier \in visited
             THEN ChooseLoop(fs, visited, i + 1, min_distance, chosen)
             ELSE IF (Less(Dist2(frontier), min_distance) /\ chosen = NoFrontier)
                     \/ (chosen # NoFrontier /\ frontier[3] <= chosen[3])
                  THEN ChooseLoop(fs, visited, i + 1, Dist2(frontier), frontier)
                  ELSE ChooseLoop(fs, visited, i + 1, min_distance, chosen)

(* variant: the scan of the candidates starts at the second one *)
choose_frontier_SkipsFirst(fs, visited) == ChooseLoop(fs, visited, 2, Inf, NoFrontier)

(* variant: the visited check is skipped *)
choose_frontier_IgnoresVisited(fs, visited) == ChooseLoop(fs, {}, 1, Inf, NoFrontier)

choose_frontier(fs, visited) == ChooseLoop(fs, visited, 1, Inf, NoFrontier)

(* variant: the set is rebuilt from the new element instead of extended *)
AddVisitedReplaces(visited, f) == {f}

(* variant: the chosen frontier is never recorded *)
AddVisitedForgets(visited, f) == visited

(* variant: an entry for the same (row, col) is replaced by the new tuple *)
AddVisitedKeyedByCell(visited, f) ==
    { v \in visited : <<v[1], v[2]>> # <<f[1], f[2]>> } \cup {f}

AddVisited(visited, f) == visited \cup {f}

-----------------------------------------------------------------------------
(* Messages the two subscriptions can deliver *)

MapMsg(h, w, res, ox, oy, unknown, occupied) ==
    Grid(h, w, res, ox, oy,
         [p \in Cells(h, w) |-> IF p \in unknown THEN -1
                                ELSE IF p \in occupied THEN 100 ELSE 0])

CostMsg(h, w, cost) == Grid(h, w, 5, 0, 0, [p \in Cells(h, w) |-> cost[p]])

UnknownCells == {<<0, 0>>, <<0, 3>>}

CostValues == {0, 1}

CostPlane == (0..5) \X (0..5)

ZeroCost == [p \in CostPlane |-> 0]

MapMsgs ==
    { MapMsg(3, 4, 5, -100, -100, U, {}) : U \in SUBSET UnknownCells }
    \cup { MapMsg(4, 4, 10, 0, -50, {<<0, 0>>}, {}) }

CostMsgs ==
    { CostMsg(3, 4, [ZeroCost EXCEPT ![<<1, 1>>] = q]) : q \in CostValues }
    \cup { CostMsg(3, 2, ZeroCost), CostMsg(4, 5, ZeroCost) }

-----------------------------------------------------------------------------
(* ExplorerNode.__init__ and main() up to rclpy.spin *)

Init ==
    /\ map_data = None
    /\ costmap_data = None
    /\ visited_frontiers = {}
    /\ goals = <<>>
    /\ phase = "spinning"
    /\ exitCause = "none"
    /\ shutdownCalls = 0
    /\ ticks = 0
    /\ lastLog = "Starting exploration..."
    /\ frontiers = <<>>
    /\ chosen_frontier = NoFrontier

-----------------------------------------------------------------------------
(* Subscriptions *)

map_callback(msg) ==
    /\ phase = "spinning"
    /\ map_data' = msg
    /\ UNCHANGED <<costmap_data, visited_frontiers, goals, phase, exitCause,
                   shutdownCalls, ticks, lastLog, frontiers, chosen_frontier>>

(* variant: the message is stored in the map field *)
costmap_callback_StoresInMap(msg) ==
    /\ phase = "spinning"
    /\ map_data' = msg
    /\ UNCHANGED <<costmap_data, visited_frontiers, goals, phase, exitCause,
                   shutdownCalls, ticks, lastLog, frontiers, chosen_frontier>>

costmap_callback(msg) ==
    /\ phase = "spinning"
    /\ costmap_data' = msg
    /\ UNCHANGED <<map_data, visited_frontiers, goals, phase, exitCause,
                   shutdownCalls, ticks, lastLog, frontiers, chosen_frontier>>

-----------------------------------------------------------------------------
(* navigate_to and the goal callbacks *)

(* variant: the row index is used for the x coordinate *)
GoalXFromRow(f, m) == f[1] * m.resolution + m.origin_x

GoalX(f, m) == f[2] * m.resolution + m.origin_x

GoalY(f, m) == f[1] * m.resolution + m.origin_y

(* variant: the goal is sent twice *)
navigate_to_SendsTwice(x, y) ==
    goals' = Append(Append(goals, [x |-> x, y |-> y, status |-> "AwaitingAcceptance"]),
                    [x |-> x, y |-> y, status |-> "AwaitingAcceptance"])

navigate_to(x, y) ==
    goals' = Append(goals, [x |-> x, y |-> y, status |-> "AwaitingAcceptance"])

(* variant: a rejected goal is sent again *)
goal_response_callback_Retries(i, accepted) ==
    /\ phase = "spinning"
    /\ goals[i].status = "AwaitingAcceptance"
    /\ goals' = IF accepted
                THEN [goals EXCEPT ![i].status = "Executing"]
                ELSE Append([goals EXCEPT ![i].status = "Rejected"],
                            [goals[i] EXCEPT !.status = "AwaitingAcceptance"])
    /\ UNCHANGED <<map_data, costmap_data, visited_frontiers, phase, exitCause,
                   shutdownCalls, ticks, lastLog, frontiers, chosen_frontier>>

goal_response_callback(i, accepted) ==
    /\ phase = "spinning"
    /\ goals[i].status = "AwaitingAcceptance"
    /\ goals' = [goals EXCEPT ![i].status =
                    IF accepted THEN "Executing" ELSE "Rejected"]
    /\ UNCHANGED <<map_data, costmap_data, visited_frontiers, phase, exitCause,
                   shutdownCalls, ticks, lastLog, frontiers, chosen_frontier>>

(* variant: the return after "Goal rejected!" is missing, so the result
   callback is attached to a rejected goal as well *)
navigation_complete_callback_AlsoRejected(i, raised) ==
    /\ phase = "spinning"
    /\ goals[i].status \in {"Executing", "Rejected"}
    /\ goals' = [goals EXCEPT ![i].status =
                    IF raised THEN "Failed" ELSE "Succeeded"]
    /\ UNCHANGED <<map_data, costmap_data, visited_frontiers, phase, exitCause,
                   shutdownCalls, ticks, lastLog, frontiers, chosen_frontier>>

navigation_complete_callback(i, raised) ==
    /\ phase = "spinning"
    /\ goals[i].status = "Executing"
    /\ goals' = [goals EXCEPT ![i].status =
                    IF raised THEN "Failed" ELSE "Succeeded"]
    /\ UNCHANGED <<map_data, costmap_data, visited_frontiers, phase, exitCause,
                   shutdownCalls, ticks, lastLog, frontiers, chosen_frontier>>

-----------------------------------------------------------------------------
(* The explore timer callback, one disjunct per path through it.  An       *)
(* exception raised in a callback leaves rclpy.spin; main()'s finally then *)
(* destroys the node and shuts rclpy down, so no callback runs afterwards. *)

(* attributes a lookup on self can find besides those of rclpy's Node *)
Attributes ==
    {"map_callback", "costmap_callback", "navigate_to", "goal_response_callback",
     "navigation_complete_callback", "find_frontiers", "choose_frontier",
     "explore", "shudown_robot"}

TimerFires ==
    /\ phase = "spinning"
    /\ ticks < MaxTicks
    /\ ticks' = ticks + 1

explore_NoMap ==
    /\ TimerFires
    /\ map_data = None
    /\ lastLog' = "No map data available"
    /\ frontiers' = <<>>
    /\ chosen_frontier' = NoFrontier
    /\ UNCHANGED <<map_data, costmap_data, visited_frontiers, goals, phase,
                   exitCause, shutdownCalls>>

(* variant: the costmap check is missing, so the tick goes on to read
   self.costmap_data.data of None and raises *)
explore_NoCostmap_FallsThrough ==
    /\ TimerFires
    /\ map_data # None
    /\ costmap_data = None
    /\ phase' = "exited"
    /\ exitCause' = "AttributeError"
    /\ frontiers' = <<>>
    /\ chosen_frontier' = NoFrontier
    /\ UNCHANGED <<map_data, costmap_data, visited_frontiers, goals,
                   shutdownCalls, lastLog>>

explore_NoCostmap ==
    /\ TimerFires
    /\ map_data # None
    /\ costmap_data = None
    /\ lastLog' = "No costmap data available"
    /\ frontiers' = <<>>
    /\ chosen_frontier' = NoFrontier
    /\ UNCHANGED <<map_data, costmap_data, visited_frontiers, goals, phase,
                   exitCause, shutdownCalls>>

Ready == map_data # None /\ costmap_data # None

explore_IndexError ==
    /\ TimerFires
    /\ Ready
    /\ find_frontiers(map_data, costmap_data).error
    /\ phase' = "exited"
    /\ exitCause' = "IndexError"
    /\ frontiers' = <<>>
    /\ chosen_frontier' = NoFrontier
    /\ UNCHANGED <<map_data, costmap_data, visited_frontiers, goals,
                   shutdownCalls, lastLog>>

(* variant: the failed shutdown call is swallowed and the node keeps spinning *)
explore_Complete_KeepsSpinning ==
    /\ TimerFires
    /\ Ready
    /\ LET found == find_frontiers(map_data, costmap_data)
       IN  /\ ~found.error
           /\ found.list = <<>>
           /\ frontiers' = found.list
    /\ lastLog' = "No frontiers found. Exploration complete!"
    /\ chosen_frontier' = NoFrontier
    /\ UNCHANGED <<map_data, costmap_data, visited_frontiers, goals, phase,
                   exitCause, shutdownCalls>>

explore_Complete ==
    /\ TimerFires
    /\ Ready
    /\ LET found == find_frontiers(map_data, costmap_data)
       IN  /\ ~found.error
           /\ found.list = <<>>
           /\ frontiers' = found.list
    /\ lastLog' = "No frontiers found. Exploration complete!"
    /\ chosen_frontier' = NoFrontier
    /\ phase' = "exited"
    /\ IF "shutdown_robot" \in Attributes
       THEN /\ shutdownCalls' = shutdownCalls + 1
            /\ exitCause' = "shutdown"
       ELSE /\ shutdownCalls' = shutdownCalls
            /\ exitCause' = "AttributeError"
    /\ UNCHANGED <<map_data, costmap_data, visited_frontiers, goals>>

explore_NoTarget ==
    /\ TimerFires
    /\ Ready
    /\ LET found == find_frontiers(map_data, costmap_data)
       IN  /\ ~found.error
           /\ found.list # <<>>
           /\ frontiers' = found.list
           /\ choose_frontier(found.list, visited_frontiers) = NoFrontier
    /\ lastLog' = "No frontiers to explore"
    /\ chosen_frontier' = NoFrontier
    /\ UNCHANGED <<map_data, costmap_data, visited_frontiers, goals, phase,
                   exitCause, shutdownCalls>>

explore_Submit ==
    /\ TimerFires
    /\ Ready
    /\ LET found == find_frontiers(map_data, costmap_data)
           chosen == choose_frontier(found.list, visited_frontiers)
       IN  /\ ~found.error
           /\ found.list # <<>>
           /\ frontiers' = found.list
           /\ chosen # NoFrontier
           /\ chosen_frontier' = chosen
           /\ visited_frontiers' = AddVisited(visited_frontiers, chosen)
           /\ navigate_to(GoalX(chosen, map_data), GoalY(chosen, map_data))
    /\ lastLog' = "Navigating to goal"
    /\ UNCHANGED <<map_data, costmap_data, phase, exitCause, shutdownCalls>>

explore ==
    \/ explore_NoMap
    \/ explore_NoCostmap
    \/ explore_IndexError
    \/ explore_Complete
    \/ explore_NoTarget
    \/ explore_Submit

-----------------------------------------------------------------------------
(* main(): Ctrl-C during rclpy.spin *)

KeyboardInterrupt ==
    /\ phase = "spinning"
    /\ phase' = "exited"
    /\ exitCause' = "KeyboardInterrupt"
    /\ UNCHANGED <<map_data, costmap_data, visited_frontiers, goals,
                   shutdownCalls, ticks, lastLog, frontiers, chosen_frontier>>

-----------------------------------------------------------------------------

Next ==
    \/ \E msg \in MapMsgs : map_callback(msg)
    \/ \E msg \in CostMsgs : costmap_callback(msg)
    \/ explore
    \/ \E i \in 1..Len(goals), accepted \in BOOLEAN : goal_response_callback(i, accepted)
    \/ \E i \in 1..Len(goals), raised \in BOOLEAN : navigation_complete_callback(i, raised)
    \/ KeyboardInterrupt

Spec == Init /\ [][Next]_vars

-----------------------------------------------------------------------------
(* A session whose grids were received once and do not change: only the    *)
(* timer fires.  The grids range over larger families than MapMsgs and     *)
(* CostMsgs, the 5x5 grids of the documented scenarios included.           *)

MaxUnknown == 1

StaticDims == {<<5, 5>>, <<4, 5>>}

InteriorCells(h, w) == (1..(h - 2)) \X (1..(w - 2))

RECURSIVE SetsUpTo(_, _)
SetsUpTo(S, k) ==
    IF k = 0 THEN {{}}
    ELSE LET smaller == SetsUpTo(S, k - 1)
         IN  smaller \cup { U \cup {p} : U \in smaller, p \in S }

UnknownSets(h, w) == SetsUpTo(Cells(h, w), MaxUnknown)

(* no occupied cell, or one on the diagonal of the interior *)
OccupiedSets(h, w) == {{}} \cup { {p} : p \in { q \in InteriorCells(h, w) : q[1] = q[2] } }

StaticMaps ==
    UNION { { MapMsg(d[1], d[2], 5, -100, -100, U, O) :
                U \in UnknownSets(d[1], d[2]), O \in OccupiedSets(d[1], d[2]) } :
            d \in StaticDims }

CostByRow == [p \in CostPlane |-> p[1]]

CostByColumn == [p \in CostPlane |-> p[2]]

CostFallingWithDistance == [p \in CostPlane |-> 8 - p[1] - p[2]]

StaticCosts ==
    UNION { { CostMsg(d[1], d[2], ZeroCost), CostMsg(d[1], d[2], CostByRow),
              CostMsg(d[1], d[2], CostByColumn),
              CostMsg(d[1], d[2], CostFallingWithDistance) } : d \in StaticDims }
    \cup { CostMsg(3, 3, ZeroCost), CostMsg(6, 6, CostByRow) }

InitStatic ==
    /\ map_data \in StaticMaps \cup {None}
    /\ costmap_data \in StaticCosts \cup {None}
    /\ visited_frontiers = {}
    /\ goals = <<>>
    /\ phase = "spinning"
    /\ exitCause = "none"
    /\ shutdownCalls = 0
    /\ ticks = 0
    /\ lastLog = "Starting exploration..."
    /\ frontiers = <<>>
    /\ chosen_frontier = NoFrontier

NextStatic == explore

SpecStatic == InitStatic /\ [][NextStatic]_vars

(* the 5 s timer keeps firing for as long as the node spins; a step that   *)
(* satisfies TimerFires is a run of explore                                *)
SpecStaticFair == InitStatic /\ [][NextStatic]_vars /\ WF_ticks(TimerFires)

-----------------------------------------------------------------------------
(* Vocabulary of the properties *)

Range(seq) == { seq[i] : i \in 1..Len(seq) }

NonTerminal == {"AwaitingAcceptance", "Executing"}

InFlight == { i \in 1..Len(goals) : goals[i].status \in NonTerminal }

Ticked == ticks' = ticks + 1

SameShape(m, cm) == m.height = cm.height /\ m.width = cm.width

Cell(f) == <<f[1], f[2]>>

Unvisited(fs, visited) == { f \in Range(fs) : f \notin visited }

-----------------------------------------------------------------------------
(* C1: at most one submitted goal is non-terminal (awaiting acceptance or  *)
(* executing) in every reachable state.                                    *)
C1_OneGoalInFlight == Cardinality(InFlight) <= 1

(* C2: a tick with both grids present on which detection returns the empty *)
(* list ends the loop, runs the shutdown routine exactly once and submits  *)
(* no goal.                                                                *)
C2_CompleteSignalsOnce ==
    [][ ( /\ Ticked
          /\ Ready
          /\ find_frontiers(map_data, costmap_data) = [error |-> FALSE, list |-> <<>>] )
        => ( /\ phase' = "exited"
             /\ shutdownCalls' = shutdownCalls + 1
             /\ exitCause' = "shutdown"
             /\ goals' = goals ) ]_vars

(* C3: the selected frontier is, among the unvisited ones, the nearest to  *)
(* the robot position, and among equally near ones one of lowest cost.     *)
C3_NearestSelected ==
    [][ (Ticked /\ chosen_frontier' # NoFrontier)
        => \A g \in Unvisited(frontiers', visited_frontiers) :
              \/ Dist2(chosen_frontier') < Dist2(g)
              \/ ( /\ Dist2(chosen_frontier') = Dist2(g)
                   /\ chosen_frontier'[3] <= g[3] ) ]_vars

(* C4: selection never returns a frontier whose (row, col) cell was        *)
(* returned by an earlier selection of the session.                        *)
C4_NeverReselectCell ==
    [][ (Ticked /\ chosen_frontier' # NoFrontier)
        => \A v \in visited_frontiers : Cell(v) # Cell(chosen_frontier') ]_vars

(* C5: the visited set changes only on a tick whose selection returned a   *)
(* frontier, and then by gaining exactly that frontier; every other step   *)
(* leaves it unchanged.                                                    *)
C5_VisitedGrowsOnlyBySelection ==
    [][ IF Ticked /\ chosen_frontier' # NoFrontier
        THEN /\ chosen_frontier' \notin visited_frontiers
             /\ visited_frontiers' = visited_frontiers \cup {chosen_frontier'}
        ELSE visited_frontiers' = visited_frontiers ]_vars

C5_Witness ==
    /\ Cardinality(visited_frontiers) >= 2
    /\ \E i \in 1..Len(goals) : goals[i].status = "Rejected"
    /\ \E i \in 1..Len(goals) : goals[i].status = "Succeeded"
    /\ lastLog = "No frontiers to explore"

(* C6: a tick that fires while the map or the costmap has not been         *)
(* received changes nothing: no goal, same visited set, same grids, the    *)
(* loop still spinning.                                                    *)
C6_NotReadyTickIsNoOp ==
    [][ (Ticked /\ (map_data = None \/ costmap_data = None))
        => ( /\ UNCHANGED <<map_data, costmap_data, visited_frontiers, goals,
                            exitCause, shutdownCalls>>
             /\ phase' = "spinning"
             /\ chosen_frontier' = NoFrontier ) ]_vars

C6_Witness ==
    /\ lastLog = "No costmap data available"
    /\ map_data # None
    /\ costmap_data = None
    /\ ticks > 0
    /\ phase = "spinning"

(* C7: a tick on which detection returns a non-empty list whose frontiers  *)
(* are all visited submits no goal, leaves the visited set unchanged and   *)
(* neither ends the loop nor signals completion.                           *)
C7_AllVisitedTickSkips ==
    [][ ( /\ Ticked
          /\ Ready
          /\ ~find_frontiers(map_data, costmap_data).error
          /\ find_frontiers(map_data, costmap_data).list # <<>>
          /\ Unvisited(find_frontiers(map_data, costmap_data).list,
                       visited_frontiers) = {} )
        => ( /\ UNCHANGED <<visited_frontiers, goals, exitCause, shutdownCalls>>
             /\ phase' = "spinning"
             /\ chosen_frontier' = NoFrontier ) ]_vars

C7_Witness ==
    /\ lastLog = "No frontiers to explore"
    /\ frontiers # <<>>
    /\ Range(frontiers) \subseteq visited_frontiers
    /\ phase = "spinning"

(* C8: a tick on which the stored map and costmap differ in width or       *)
(* height ends in a raised error: nothing selected, nothing added to the   *)
(* visited set, no goal submitted.                                         *)
C8_MismatchSurfaced ==
    [][ (Ticked /\ Ready /\ ~SameShape(map_data, costmap_data))
        => ( /\ phase' = "exited"
             /\ exitCause' \in {"IndexError", "AttributeError"}
             /\ chosen_frontier' = NoFrontier
             /\ UNCHANGED <<visited_frontiers, goals>> ) ]_vars

(* C9: for a map and a costmap of equal dimensions detection returns, in   *)
(* row-major order and each once, exactly the interior cells whose map     *)
(* value is 0 and that have an 8-neighbour of value -1, each with the      *)
(* costmap value at that cell.                                             *)
IsFrontierCell(m, p) ==
    /\ ArrayAt(m, p[1], p[2]) = 0
    /\ \E q \in Cells(m.height, m.width) :
          /\ q # p
          /\ q[1] - p[1] \in -1..1
          /\ q[2] - p[2] \in -1..1
          /\ ArrayAt(m, q[1], q[2]) = -1

C9_DetectionExact ==
    (ticks > 0 /\ Ready /\ SameShape(map_data, costmap_data))
    => /\ { Cell(f) : f \in Range(frontiers) }
            = { p \in InteriorCells(map_data.height, map_data.width) :
                    IsFrontierCell(map_data, p) }
       /\ \A f \in Range(frontiers) : f[3] = ArrayAt(costmap_data, f[1], f[2])
       /\ \A i, j \in 1..Len(frontiers) :
             i < j => \/ frontiers[i][1] < frontiers[j][1]
                      \/ ( /\ frontiers[i][1] = frontiers[j][1]
                           /\ frontiers[i][2] < frontiers[j][2] )

(* the 5x5 all-free map with (2,2) unknown: the 8 neighbours of (2,2) *)
C9_Witness ==
    /\ ticks > 0
    /\ map_data = MapMsg(5, 5, 5, -100, -100, {<<2, 2>>}, {})
    /\ costmap_data = CostMsg(5, 5, CostByColumn)
    /\ frontiers = << <<1, 1, 1>>, <<1, 2, 2>>, <<1, 3, 3>>, <<2, 1, 1>>,
                      <<2, 3, 3>>, <<3, 1, 1>>, <<3, 2, 2>>, <<3, 3, 3>> >>

(* C10: a goal is submitted only by a tick, and its target is              *)
(* (col*resolution + origin.x, row*resolution + origin.y) for the frontier *)
(* selected on that tick and the map grid that tick detected on.           *)
C10_GoalTarget ==
    [][ Len(goals') > Len(goals)
        => ( /\ Ticked
             /\ map_data' = map_data
             /\ frontiers' = find_frontiers(map_data, costmap_data).list
             /\ chosen_frontier' \in Range(frontiers')
             /\ goals' = Append(goals,
                   [x |-> chosen_frontier'[2] * map_data.resolution + map_data.origin_x,
                    y |-> chosen_frontier'[1] * map_data.resolution + map_data.origin_y,
                    status |-> "AwaitingAcceptance"]) ) ]_vars

C10_Witness ==
    /\ lastLog = "Navigating to goal"
    /\ chosen_frontier = <<1, 2, 0>>
    /\ Len(goals) = 2
    /\ goals[2].x = -90
    /\ goals[2].y = -95
    /\ goals[1].x = 10
    /\ goals[1].y = -40

-----------------------------------------------------------------------------
GoalStep(old, new) ==
    \/ old = "AwaitingAcceptance" /\ new \in {"Executing", "Rejected"}
    \/ old = "Executing" /\ new \in {"Succeeded", "Failed"}

(* C11: every goal starts awaiting acceptance and moves only               *)
(* AwaitingAcceptance -> Executing -> Succeeded/Failed or                  *)
(* AwaitingAcceptance -> Rejected; a rejected, succeeded or failed goal    *)
(* never changes again.                                                    *)
C11_GoalLifecycle ==
    [][ /\ Len(goals') >= Len(goals)
        /\ \A i \in 1..Len(goals') :
              IF i <= Len(goals)
              THEN \/ goals'[i] = goals[i]
                   \/ /\ GoalStep(goals[i].status, goals'[i].status)
                      /\ goals'[i] = [goals[i] EXCEPT !.status = goals'[i].status]
              ELSE goals'[i].status = "AwaitingAcceptance" ]_vars

C11_Witness ==
    /\ Len(goals) = 3
    /\ goals[1].status = "Rejected"
    /\ goals[2].status = "Failed"
    /\ goals[3].status = "Succeeded"

(* C12: each selection that returns a frontier enlarges the visited set by *)
(* one, and nothing else changes its size, so its size is the number of    *)
(* successful selections so far.                                           *)
C12_VisitedCountsSelections ==
    [][ Cardinality(visited_frontiers')
          = Cardinality(visited_frontiers)
            + (IF Ticked /\ chosen_frontier' # NoFrontier THEN 1 ELSE 0) ]_vars

C12_Witness ==
    /\ Cardinality(visited_frontiers) = 3
    /\ \E v, w \in visited_frontiers : v # w /\ Cell(v) = Cell(w)

(* C13: after a tick has seen an empty frontier list no later step selects *)
(* a frontier, changes the visited set or submits a goal, whatever grids   *)
(* arrive.                                                                 *)
C13_TerminalIsFinal ==
    [][ lastLog = "No frontiers found. Exploration complete!"
        => ( /\ UNCHANGED <<visited_frontiers, goals, chosen_frontier, ticks>>
             /\ lastLog' = lastLog ) ]_vars

C13_Witness ==
    /\ lastLog = "No frontiers found. Exploration complete!"
    /\ phase = "exited"
    /\ visited_frontiers # {}
    /\ ticks < MaxTicks

(* C14: a map update replaces only the stored map, by the whole message,   *)
(* a costmap update only the stored costmap, and a tick detects on the     *)
(* grids stored when it fires, leaving both as they are.                   *)
C14_LastWriteWins ==
    [][ /\ map_data' # map_data
           => (map_data' \in MapMsgs /\ costmap_data' = costmap_data /\ ~Ticked)
        /\ costmap_data' # costmap_data
           => (costmap_data' \in CostMsgs /\ map_data' = map_data /\ ~Ticked)
        /\ (Ticked /\ Ready /\ ~find_frontiers(map_data, costmap_data).error)
           => frontiers' = find_frontiers(map_data, costmap_data).list ]_vars

C14_Witness ==
    /\ ticks = 2
    /\ map_data = MapMsg(3, 4, 5, -100, -100, {<<0, 3>>}, {})
    /\ costmap_data = CostMsg(3, 4, [ZeroCost EXCEPT ![<<1, 1>>] = 1])
    /\ frontiers = << <<1, 2, 0>> >>
    /\ visited_frontiers = {<<1, 1, 0>>, <<1, 2, 0>>}

(* C15: a goal's acceptance, rejection, success or failure leaves the      *)
(* visited set as it is and submits no goal.                               *)
C15_OutcomeKeepsVisited ==
    [][ (\E i \in 1..Len(goals) :
            i <= Len(goals') /\ goals'[i].status # goals[i].status)
        => ( /\ visited_frontiers' = visited_frontiers
             /\ Len(goals') = Len(goals)
             /\ ~Ticked ) ]_vars

C15_Witness ==
    /\ Len(goals) = 2
    /\ goals[1].status = "Failed"
    /\ goals[2].status = "Rejected"
    /\ Cardinality(visited_frontiers) = 2
    /\ ticks = 2

-----------------------------------------------------------------------------
(* In a session with unchanging grids the list a tick detected is the list *)
(* every later tick detects.                                               *)
Detected == frontiers # <<>>

Exhausted == Range(frontiers) \subseteq visited_frontiers

(* C16: with grids that no longer change and n >= 1 frontiers, at most n   *)
(* goals are submitted, once every frontier is visited no tick submits a   *)
(* goal, and under fair ticking that state is reached.                     *)
C16_ExplorationSettles ==
    /\ [](Len(goals) <= Len(frontiers))
    /\ [][(Detected /\ Exhausted)
            => (goals' = goals /\ frontiers' = frontiers /\ Exhausted')]_vars
    /\ (Detected /\ Len(frontiers) <= MaxTicks) ~> (Detected /\ Exhausted)

C16_Witness ==
    /\ Detected
    /\ Exhausted
    /\ frontiers = find_frontiers(map_data, costmap_data).list
    /\ Len(frontiers) = 2
    /\ Len(goals) = 2
    /\ ticks = 3
    /\ lastLog = "No frontiers to explore"

(* C17: on a tick that runs selection, the result is nothing exactly when  *)
(* every detected frontier is visited; otherwise it is a detected frontier *)
(* that was not in the visited set before the tick.                        *)
C17_SelectsIffUnvisited ==
    [][ (Ticked /\ frontiers' # <<>>)
        => LET unvisited == Unvisited(frontiers', visited_frontiers)
           IN  /\ (chosen_frontier' = NoFrontier) <=> (unvisited = {})
               /\ unvisited # {} => chosen_frontier' \in unvisited ]_vars

C17_Witness ==
    /\ ticks = 3
    /\ Len(frontiers) = 3
    /\ chosen_frontier = frontiers[1]
    /\ Exhausted

C19_GoalsMatchVisited ==
    /\ [](Len(goals) = Cardinality(visited_frontiers))
    /\ [][ Len(goals') = Len(goals)
              + (IF Ticked /\ chosen_frontier' # NoFrontier THEN 1 ELSE 0) ]_vars

C19_Witness ==
    /\ Len(goals) = 2
    /\ Cardinality(visited_frontiers) = 2
    /\ ticks = 3
    /\ lastLog = "No frontiers to explore"
    /\ \E i \in 1..Len(goals) : goals[i].status = "Executing"

(* C20: once the process has shut down no goal is left awaiting acceptance *)
(* or executing.                                                           *)
C20_NoGoalLeftAfterShutdown == phase = "exited" => InFlight = {}

====
